---- MODULE Spec2Model ----
(***************************************************************************)
(* Model of notebook_manager.py: one interactive session over the note     *)
(* list `notes` and the file notes.json.                                   *)
(*                                                                         *)
(* Text is a sequence of one-character strings, so that strip(), lower(),  *)
(* split(',') and the substring operator `in` are computed as Python       *)
(* computes them.  A Python dict is a TLA+ record whose DOMAIN is the      *)
(* dict's key set.  The file holds a JSON document, modelled as the tree   *)
(* of JSON values json.dump writes and json.load reads.                    *)
(***************************************************************************)
EXTENDS Integers, Sequences, FiniteSets, TLC

VARIABLES
    notes,    \* the list `notes` of main(), shared with every handler
    disk,     \* content of the file NOTES_FILE
    pc,       \* "start" | "menu" | "exited" | "crashed"
    last,     \* the menu option that ran last, its inputs and its save result
    results,  \* the list `results` of the last search_notes / filter_by_tag
    fails     \* number of I/O failures so far

vars == <<notes, disk, pc, last, results, fails>>

(* Bounds *)
MaxNotes == 2
MaxFails == 1
MaxStored == 2

----------------------------------------------------------------------------
(* Text *)

IsSpace(c) == c \in {" ", "\n"}

LowerChar(c) ==
    CASE c = "A" -> "a"
      [] c = "B" -> "b"
      [] c = "Y" -> "y"
      [] OTHER -> c

lower(s) == [i \in 1..Len(s) |-> LowerChar(s[i])]

RECURSIVE lstrip(_)
lstrip(s) == IF s # <<>> /\ IsSpace(Head(s)) THEN lstrip(Tail(s)) ELSE s

RECURSIVE rstrip(_)
rstrip(s) ==
    IF s # <<>> /\ IsSpace(s[Len(s)]) THEN rstrip(SubSeq(s, 1, Len(s) - 1)) ELSE s

strip(s) == rstrip(lstrip(s))

(* s.split(',') : every segment between commas, empty ones included *)
RECURSIVE split(_)
split(s) ==
    IF \E i \in 1..Len(s) : s[i] = ","
    THEN LET i == CHOOSE k \in 1..Len(s) :
                     s[k] = "," /\ \A m \in 1..(k - 1) : s[m] # ","
         IN  <<SubSeq(s, 1, i - 1)>> \o split(SubSeq(s, i + 1, Len(s)))
    ELSE <<s>>

(* "\n".join(lines) *)
RECURSIVE join(_)
join(lines) ==
    IF lines = <<>> THEN <<>>
    ELSE IF Len(lines) = 1 THEN lines[1]
    ELSE lines[1] \o <<"\n">> \o join(Tail(lines))

(* sub in s  (Python substring test) *)
contains(sub, s) ==
    \E i \in 0..(Len(s) - Len(sub)) : SubSeq(s, i + 1, i + Len(sub)) = sub

(* [tag.strip() for tag in text.split(',') if tag.strip()] *)
RECURSIVE stripped_nonempty(_)
stripped_nonempty(segs) ==
    IF segs = <<>> THEN <<>>
    ELSE IF strip(Head(segs)) # <<>>
         THEN <<strip(Head(segs))>> \o stripped_nonempty(Tail(segs))
         ELSE stripped_nonempty(Tail(segs))

parse_tags(text) == stripped_nonempty(split(text))

(* the `while empty_count < 1` loop: lines are collected up to the first   *)
(* empty line, joined with "\n" and stripped                               *)
RECURSIVE read_lines(_)
read_lines(typed) ==
    IF typed = <<>> \/ Head(typed) = <<>> THEN <<>>
    ELSE <<Head(typed)>> \o read_lines(Tail(typed))

read_content(typed) == strip(join(read_lines(typed)))

(* int(text): surrounding whitespace, an optional sign, decimal digits;    *)
(* anything else raises ValueError                                         *)
Digits == <<"0", "1", "2", "3", "4", "5", "6", "7", "8", "9">>

DigitVal(c) == (CHOOSE d \in 1..10 : Digits[d] = c) - 1

IsDigit(c) == \E d \in 1..10 : Digits[d] = c

RECURSIVE DecVal(_)
DecVal(ds) ==
    IF ds = <<>> THEN 0
    ELSE 10 * DecVal(SubSeq(ds, 1, Len(ds) - 1)) + DigitVal(ds[Len(ds)])

int(text) ==
    LET t == strip(text)
        signed == t # <<>> /\ Head(t) \in {"-", "+"}
        ds == IF signed THEN Tail(t) ELSE t
    IN  IF ds # <<>> /\ \A i \in 1..Len(ds) : IsDigit(ds[i])
        THEN [ok |-> TRUE,
              val |-> IF signed /\ Head(t) = "-" THEN 0 - DecVal(ds) ELSE DecVal(ds)]
        ELSE [ok |-> FALSE, val |-> 0]

----------------------------------------------------------------------------
(* The file and the JSON document in it *)

NOTES_FILE_absent == [file |-> "absent"]

File(doc) == [file |-> "present", doc |-> doc]

JStr(s) == [j |-> "string", s |-> s]

JArr(items) == [j |-> "array", items |-> items]

JObj(members) == [j |-> "object", members |-> members]

(* text that json.load rejects with JSONDecodeError *)
Malformed(what) == [j |-> "malformed", text |-> what]

(* a dict is written with its keys in insertion order; every dict of the   *)
(* program is built in this order                                          *)
KeyOrder == <<"title", "content", "tags", "date", "x">>

(* dump_items, but a key whose value is empty is left out *)
RECURSIVE dump_items_skip_empty(_, _)
dump_items_skip_empty(d, keys) ==
    IF keys = <<>> THEN <<>>
    ELSE IF Head(keys) \in DOMAIN d /\ d[Head(keys)] # <<>>
         THEN LET k == Head(keys)
                  v == d[k]
                  jv == IF k = "tags"
                        THEN JArr([i \in 1..Len(v) |-> JStr(v[i])])
                        ELSE JStr(v)
              IN  <<[k |-> k, v |-> jv]>> \o dump_items_skip_empty(d, Tail(keys))
         ELSE dump_items_skip_empty(d, Tail(keys))

RECURSIVE dump_items(_, _)
dump_items(d, keys) ==
    IF keys = <<>> THEN <<>>
    ELSE IF Head(keys) \in DOMAIN d
         THEN LET k == Head(keys)
                  v == d[k]
                  jv == IF k = "tags"
                        THEN JArr([i \in 1..Len(v) |-> JStr(v[i])])
                        ELSE JStr(v)
              IN  <<[k |-> k, v |-> jv]>> \o dump_items(d, Tail(keys))
         ELSE dump_items(d, Tail(keys))

(* json.dump(notes, file): a list of dicts becomes an array of objects *)
dump(ns) == JArr([i \in 1..Len(ns) |-> JObj(dump_items(ns[i], KeyOrder))])

(* json.load(file) on a well-formed document: array -> list, object ->     *)
(* dict, string -> str                                                     *)
RECURSIVE json_load(_)
json_load(jv) ==
    CASE jv.j = "string" -> jv.s
      [] jv.j = "array" -> [i \in 1..Len(jv.items) |-> json_load(jv.items[i])]
      [] jv.j = "object" ->
            [k \in {jv.members[i].k : i \in 1..Len(jv.members)} |->
                json_load((CHOOSE m \in {jv.members[i] : i \in 1..Len(jv.members)} :
                               m.k = k).v)]

(* load_notes(): [] when the file is absent, unreadable, not JSON, or JSON *)
(* that is not a list; otherwise the parsed list as it is                  *)
load_notes(d, ioerror) ==
    IF d.file = "absent" THEN <<>>
    ELSE IF ioerror \/ d.doc.j = "malformed" THEN <<>>
    ELSE IF d.doc.j = "array" THEN json_load(d.doc) ELSE <<>>

(* save_notes(notes): the outcomes of one call.  open(..., 'w') truncates  *)
(* the file; an IOError raised by open leaves the file as it was, one      *)
(* raised while writing or closing leaves a prefix of the new text, which  *)
(* is not a JSON document.                                                 *)
save_notes(ns, d, canFail) ==
    {[ret |-> TRUE, disk |-> File(dump(ns))]}
    \cup (IF canFail
          THEN {[ret |-> FALSE, disk |-> d],
                [ret |-> FALSE, disk |-> File(Malformed("truncated"))]}
          ELSE {})

Saved(o) == IF o.ret THEN "ok" ELSE "fail"

----------------------------------------------------------------------------
(* The session *)

NoInput == [choice |-> <<>>, title |-> <<>>, answer |-> <<>>, typed |-> <<>>,
            tags |-> <<>>, keyword |-> <<>>]

Ran(op, in, saved) == [op |-> op, in |-> in, saved |-> saved]

(* the state before main() runs, for a file holding one of the documents *)
Start(documents) ==
    /\ notes = <<>>
    /\ disk \in documents
    /\ pc = "start"
    /\ last = Ran("none", NoInput, "none")
    /\ results = <<>>
    /\ fails = 0

(* main(), before the menu loop: notes = load_notes() *)
Load ==
    /\ pc = "start"
    /\ \E ioerror \in BOOLEAN :
          /\ ioerror => fails < MaxFails
          /\ notes' = load_notes(disk, ioerror)
          /\ fails' = IF ioerror THEN fails + 1 ELSE fails
    /\ pc' = "menu"
    /\ last' = Ran("load", NoInput, "none")
    /\ UNCHANGED <<disk, results>>

(* an uncaught exception (KeyError) ends the process where it is raised *)
Crash(op, in) ==
    /\ pc' = "crashed"
    /\ last' = Ran(op, in, "none")
    /\ results' = <<>>
    /\ UNCHANGED <<notes, disk, fails>>

(* Return, but the handler saves on its way out *)
Return_saves(op, in) ==
    \E o \in save_notes(notes, disk, fails < MaxFails) :
        /\ disk' = o.disk
        /\ fails' = IF o.ret THEN fails ELSE fails + 1
        /\ pc' = "menu"
        /\ last' = Ran(op, in, Saved(o))
        /\ results' = <<>>
        /\ UNCHANGED notes

(* a handler that returns without touching the list or the file *)
Return(op, in) ==
    /\ pc' = "menu"
    /\ last' = Ran(op, in, "none")
    /\ results' = <<>>
    /\ UNCHANGED <<notes, disk, fails>>

(* MutateAndSave, but the change is undone when save_notes returns False *)
MutateAndSave_rollback(op, in, ns) ==
    \E o \in save_notes(ns, disk, fails < MaxFails) :
        /\ notes' = IF o.ret THEN ns ELSE notes
        /\ disk' = o.disk
        /\ fails' = IF o.ret THEN fails ELSE fails + 1
        /\ pc' = "menu"
        /\ last' = Ran(op, in, Saved(o))
        /\ results' = <<>>

(* the tail of a mutating handler: the list is ns, then save_notes(ns) *)
MutateAndSave(op, in, ns) ==
    \E o \in save_notes(ns, disk, fails < MaxFails) :
        /\ notes' = ns
        /\ disk' = o.disk
        /\ fails' = IF o.ret THEN fails ELSE fails + 1
        /\ pc' = "menu"
        /\ last' = Ran(op, in, Saved(o))
        /\ results' = <<>>

(* a query handler that prints the list rs *)
Show(op, in, rs) ==
    /\ pc' = "menu"
    /\ last' = Ran(op, in, "none")
    /\ results' = rs
    /\ UNCHANGED <<notes, disk, fails>>

(* first_title, but the first title typed is taken as it is *)
first_title_no_loop(attempts) == strip(Head(attempts))

(* the `while True` loop of add_note: the first non-blank title typed *)
RECURSIVE first_title(_)
first_title(attempts) ==
    IF strip(Head(attempts)) # <<>> THEN strip(Head(attempts))
    ELSE first_title(Tail(attempts))

(* the dict add_note builds from what is typed and the clock *)
new_note(attempts, typed, tags_input, now) ==
    [title |-> first_title(attempts),
     content |-> read_content(typed),
     tags |-> parse_tags(strip(tags_input)),
     date |-> now]

(* inputs: records [attempts, typed, tags, now]; the title loop ends only  *)
(* when a non-blank title is typed                                         *)
add_note(inputs) ==
    /\ pc = "menu"
    /\ Len(notes) < MaxNotes
    /\ \E in \in inputs :
          /\ \E i \in 1..Len(in.attempts) : strip(in.attempts[i]) # <<>>
          /\ MutateAndSave("add",
                 [NoInput EXCEPT !.title = in.attempts[Len(in.attempts)]],
                 Append(notes, new_note(in.attempts, in.typed, in.tags, in.now)))

(* list_notes reads note['title'], note['tags'] and note['content'] of     *)
(* every note (note.get('date') tolerates a missing date)                  *)
Listable(ns) ==
    \A i \in 1..Len(ns) : {"title", "tags", "content"} \subseteq DOMAIN ns[i]

list_notes ==
    /\ pc = "menu"
    /\ IF Listable(notes) THEN Return("list", NoInput) ELSE Crash("list", NoInput)

(* the comprehension of search_notes, one note at a time; `or` reads       *)
(* note['content'] only when the title does not match                      *)
search_raises(keyword, note) ==
    \/ "title" \notin DOMAIN note
    \/ /\ ~contains(keyword, lower(note.title))
       /\ "content" \notin DOMAIN note

(* search_match, but the tags are searched too *)
search_match_tags(keyword, note) ==
    \/ contains(keyword, lower(note.title))
    \/ contains(keyword, lower(note.content))
    \/ \E i \in 1..Len(note.tags) : contains(keyword, lower(note.tags[i]))

search_match(keyword, note) ==
    \/ contains(keyword, lower(note.title))
    \/ contains(keyword, lower(note.content))

RECURSIVE search_results(_, _)
search_results(keyword, ns) ==
    IF ns = <<>> THEN <<>>
    ELSE IF search_match(keyword, Head(ns))
         THEN <<Head(ns)>> \o search_results(keyword, Tail(ns))
         ELSE search_results(keyword, Tail(ns))

search_notes(inputs) ==
    /\ pc = "menu"
    /\ \E typed \in inputs :
          LET keyword == lower(strip(typed))
              in == [NoInput EXCEPT !.keyword = typed]
          IN  IF keyword = <<>> THEN Return("search", in)
              ELSE IF \E i \in 1..Len(notes) : search_raises(keyword, notes[i])
                   THEN Crash("search", in)
              ELSE IF ~Listable(search_results(keyword, notes))
                   THEN Crash("search", in)
              ELSE Show("search", in, search_results(keyword, notes))

(* tag_match, but a tag that contains the input counts *)
tag_match_substring(tag, note) ==
    \E i \in 1..Len(note.tags) : contains(tag, lower(note.tags[i]))

(* tag in [t.lower() for t in note['tags']] *)
tag_match(tag, note) ==
    \E i \in 1..Len(note.tags) : lower(note.tags[i]) = tag

RECURSIVE tag_results(_, _)
tag_results(tag, ns) ==
    IF ns = <<>> THEN <<>>
    ELSE IF tag_match(tag, Head(ns))
         THEN <<Head(ns)>> \o tag_results(tag, Tail(ns))
         ELSE tag_results(tag, Tail(ns))

filter_by_tag(inputs) ==
    /\ pc = "menu"
    /\ IF \E i \in 1..Len(notes) : "tags" \notin DOMAIN notes[i]
       THEN Crash("filter", NoInput)
       ELSE IF \A i \in 1..Len(notes) : notes[i].tags = <<>>
       THEN Return("filter", NoInput)
       ELSE \E typed \in inputs :
               LET tag == lower(strip(typed))
                   in == [NoInput EXCEPT !.keyword = typed]
               IN  IF tag = <<>> THEN Return("filter", in)
                   ELSE IF ~Listable(tag_results(tag, notes))
                        THEN Crash("filter", in)
                   ELSE Show("filter", in, tag_results(tag, notes))

(* the try block shared by edit_note and delete_note *)
valid_choice(typed, ns) ==
    /\ int(typed).ok
    /\ int(typed).val # 0
    /\ ~(int(typed).val < 1 \/ int(typed).val > Len(ns))

(* edited, but the tags are assigned whatever is typed *)
edited_assigns_blank_tags(note, new_title, answer, typed, new_tags) ==
    LET n1 == IF strip(new_title) # <<>>
              THEN [note EXCEPT !.title = strip(new_title)]
              ELSE note
        n2 == IF lower(strip(answer)) = <<"y">> /\ read_content(typed) # <<>>
              THEN [n1 EXCEPT !.content = read_content(typed)]
              ELSE n1
    IN  [n2 EXCEPT !.tags = parse_tags(strip(new_tags))]

(* the body of edit_note after the position is accepted *)
edited(note, new_title, answer, typed, new_tags) ==
    LET n1 == IF strip(new_title) # <<>>
              THEN [note EXCEPT !.title = strip(new_title)]
              ELSE note
        n2 == IF lower(strip(answer)) = <<"y">> /\ read_content(typed) # <<>>
              THEN [n1 EXCEPT !.content = read_content(typed)]
              ELSE n1
    IN  IF strip(new_tags) # <<>>
        THEN [n2 EXCEPT !.tags = parse_tags(strip(new_tags))]
        ELSE n2

(* inputs: records [title, answer, typed, tags]; the content is asked for  *)
(* only after the answer 'y'                                               *)
edit_note(choices, inputs) ==
    /\ pc = "menu"
    /\ IF notes = <<>> THEN Return("edit", NoInput)
       ELSE IF ~Listable(notes) THEN Crash("edit", NoInput)
       ELSE \E choice \in choices :
               IF ~valid_choice(choice, notes)
               THEN Return("edit", [NoInput EXCEPT !.choice = choice])
               ELSE \E in \in inputs :
                       /\ lower(strip(in.answer)) # <<"y">> => in.typed = <<>>
                       /\ LET k == int(choice).val
                          IN  MutateAndSave("edit",
                                  [NoInput EXCEPT !.choice = choice,
                                                  !.title = in.title,
                                                  !.answer = in.answer,
                                                  !.typed = in.typed,
                                                  !.tags = in.tags],
                                  [notes EXCEPT ![k] =
                                      edited(notes[k], in.title, in.answer,
                                             in.typed, in.tags)])

(* pop, but the last note is removed whatever i is *)
pop_last(ns, i) == SubSeq(ns, 1, Len(ns) - 1)

(* notes.pop(i) for a 0-based i *)
pop(ns, i) == SubSeq(ns, 1, i) \o SubSeq(ns, i + 2, Len(ns))

delete_note(choices, answers) ==
    /\ pc = "menu"
    /\ IF notes = <<>> THEN Return("delete", NoInput)
       ELSE IF ~Listable(notes) THEN Crash("delete", NoInput)
       ELSE \E choice \in choices :
               IF ~valid_choice(choice, notes)
               THEN Return("delete", [NoInput EXCEPT !.choice = choice])
               ELSE \E confirm \in answers :
                       LET in == [NoInput EXCEPT !.choice = choice,
                                                 !.answer = confirm]
                       IN  IF lower(strip(confirm)) = <<"y">>
                           THEN MutateAndSave("delete", in,
                                              pop(notes, int(choice).val - 1))
                           ELSE Return("delete", in)

(* option '0' of main(): save_notes(notes), then break *)
exit ==
    /\ pc = "menu"
    /\ \E o \in save_notes(notes, disk, fails < MaxFails) :
          /\ disk' = o.disk
          /\ fails' = IF o.ret THEN fails ELSE fails + 1
          /\ last' = Ran("exit", NoInput, Saved(o))
    /\ pc' = "exited"
    /\ results' = <<>>
    /\ UNCHANGED notes

(* any other option of main(): a message, nothing else *)
invalid_option ==
    /\ pc = "menu"
    /\ Return("invalid", NoInput)

----------------------------------------------------------------------------
(* What the user types, what the clock reads and what the file holds *)

Blank == <<>>

Lines(text) == <<text, Blank>>

ChoiceInputs ==
    { <<"0">>, <<"1">>, <<" ", "2">>, <<"3">>, <<"4">>, <<"-", "1">>, <<"x">> }

AnswerInputs == { <<"Y", " ">>, <<"y", "e", "s">> }

StoredNote == [title |-> <<"b">>, content |-> <<>>, tags |-> << <<"a">> >>,
               date |-> <<"1">>]

NotNotes == <<[x |-> <<"a">>]>>

(* one whole session: few inputs, every menu option *)
AddInputs ==
    { [attempts |-> << <<" ">>, <<" ", "b">> >>, typed |-> <<Blank>>,
       tags |-> <<"a">>, now |-> <<"2">>],
      [attempts |-> << <<"A", "b">> >>, typed |-> Lines(<<"a", "B">>),
       tags |-> <<",">>, now |-> <<"2">>] }

EditInputs ==
    { [title |-> <<"A", "b">>, answer |-> <<"n">>, typed |-> <<>>, tags |-> Blank],
      [title |-> <<" ">>, answer |-> <<"y">>, typed |-> Lines(<<"a", "B">>),
       tags |-> <<",">>] }

KeywordInputs == { Blank, <<"B", " ">> }

TagInputs == { <<" ">>, <<"A">> }

Documents ==
    { NOTES_FILE_absent,
      File(Malformed("garbage")),
      File(JObj(<<[k |-> "x", v |-> JStr(<<"a">>)]>>)),
      File(dump(NotNotes)),
      File(dump(<<StoredNote>>)),
      File(dump(<<[StoredNote EXCEPT !.title = <<>>]>>)) }

Init == Start(Documents)

Next ==
    \/ Load
    \/ add_note(AddInputs)
    \/ list_notes
    \/ search_notes(KeywordInputs)
    \/ filter_by_tag(TagInputs)
    \/ edit_note(ChoiceInputs, EditInputs)
    \/ delete_note(ChoiceInputs, AnswerInputs)
    \/ exit
    \/ invalid_option

Spec == Init /\ [][Next]_vars

(* sessions that only edit: every way of filling the prompts of edit_note *)
EditedNote == [title |-> <<"A", "b">>, content |-> <<"b">>,
               tags |-> << <<"A", "b">>, <<"b">> >>, date |-> <<"1">>]

EditDocuments ==
    { File(dump(<<StoredNote>>)),
      File(dump(<<EditedNote, StoredNote>>)),
      File(dump(<<[title |-> <<"b">>, content |-> <<"b">>, tags |-> <<>>]>>)),
      File(dump(NotNotes)) }

AllEditInputs ==
    { [title |-> Blank, answer |-> <<"n">>, typed |-> <<>>, tags |-> Blank],
      [title |-> <<" ">>, answer |-> Blank, typed |-> <<>>, tags |-> <<" ">>],
      [title |-> <<" ", "a">>, answer |-> <<"n">>, typed |-> <<>>, tags |-> Blank],
      [title |-> Blank, answer |-> <<"y">>, typed |-> Lines(<<"a", "B">>),
       tags |-> Blank],
      [title |-> Blank, answer |-> <<"Y", " ">>, typed |-> <<Blank>>,
       tags |-> Blank],
      [title |-> Blank, answer |-> <<"y">>, typed |-> Lines(<<" ">>),
       tags |-> <<",">>],
      [title |-> Blank, answer |-> <<"n">>, typed |-> <<>>,
       tags |-> <<"a", ",", " ", "B">>],
      [title |-> <<" ", "a">>, answer |-> <<"y">>, typed |-> Lines(<<"a", "B">>),
       tags |-> <<"a", ",", " ", "B">>] }

EditChoiceInputs == { <<"1">>, <<" ", "2">>, <<"3">> }

InitEdit == Start(EditDocuments)

NextEdit ==
    \/ Load
    \/ edit_note(EditChoiceInputs, AllEditInputs)
    \/ exit

SpecEdit == InitEdit /\ [][NextEdit]_vars

(* sessions that only query: stored lists of up to MaxStored notes *)
QueryNotes ==
    { [title |-> <<"A", "b">>, content |-> <<>>, tags |-> << <<"a">> >>,
       date |-> <<"1">>],
      [title |-> <<"b">>, content |-> <<"x", "a", "B">>, tags |-> <<>>,
       date |-> <<"1">>],
      [title |-> <<"b">>, content |-> <<>>, tags |-> << <<"A", "b">>, <<"x">> >>,
       date |-> <<"2">>] }

QueryDocuments ==
    { File(dump(ns)) : ns \in UNION { [1..n -> QueryNotes] : n \in 0..MaxStored } }
    \cup { File(dump(NotNotes)) }

AllKeywordInputs ==
    { Blank, <<" ">>, <<"a">>, <<"A", "B">>, <<" ", "a", "b">>, <<"b", "a">>,
      <<"X">> }

AllTagInputs ==
    { Blank, <<"A">>, <<"a", "B">>, <<"A", "b", " ">>, <<"b">>, <<"x">> }

InitQuery == Start(QueryDocuments)

NextQuery ==
    \/ Load
    \/ list_notes
    \/ search_notes(AllKeywordInputs)
    \/ filter_by_tag(AllTagInputs)

SpecQuery == InitQuery /\ [][NextQuery]_vars

----------------------------------------------------------------------------
(* Properties *)

(* the position typed is a number in 1..len(ns) *)
InRange(typed, ns) == int(typed).ok /\ int(typed).val \in 1..Len(ns)

(* the answer that edit_note and delete_note take for yes *)
Affirmative(typed) == lower(strip(typed)) = <<"y">>

IsNoteRecord(n) == {"title", "content", "tags"} \subseteq DOMAIN n

IsListOfNotes(d) ==
    /\ d.file = "present"
    /\ d.doc.j = "array"
    /\ \A i \in 1..Len(d.doc.items) :
          /\ d.doc.items[i].j = "object"
          /\ IsNoteRecord(json_load(d.doc.items[i]))

AllTitled(ns) ==
    \A i \in 1..Len(ns) : "title" \in DOMAIN ns[i] /\ ns[i].title # <<>>

(* C1: after an add, an in-range edit, a confirmed delete or the exit      *)
(* whose save returned True, the file holds the list in memory: loading it *)
(* gives the same notes, field for field, in the same order.               *)
C1_SavedFileIsMemory ==
    (pc \in {"menu", "exited"} /\ last.saved = "ok")
        => /\ disk.file = "present"
           /\ disk.doc.j = "array"
           /\ Len(disk.doc.items) = Len(notes)
           /\ load_notes(disk, FALSE) = notes

C1_Witness ==
    /\ pc = "menu"
    /\ last.op = "edit"
    /\ last.saved = "ok"
    /\ Len(notes) = 2
    /\ notes[1] # notes[2]

(* C2: a save that returns False leaves the file exactly as it was, and    *)
(* the save at exit leaves the list in memory as it was.                   *)
C2_SaveAllOrNothing ==
    [][/\ last'.saved = "fail" => disk' = disk
       /\ last'.op = "exit" => notes' = notes]_vars

(* C3: load gives the empty list unless the file holds a list of note      *)
(* records, and a non-empty list only for a list of note records.          *)
C3_LoadEmptyUnlessNotes ==
    [][last'.op = "load"
         => /\ ~IsListOfNotes(disk) => notes' = <<>>
            /\ notes' # <<>> => IsListOfNotes(disk)]_vars

(* C4: every add appends exactly one note, with the non-empty title that   *)
(* was typed, at the end of the list and leaves the notes before it as     *)
(* they were, whether save returned True or False.                         *)
C4_AddAppendsOne ==
    [][last'.op = "add"
         => /\ Len(notes') = Len(notes) + 1
            /\ SubSeq(notes', 1, Len(notes)) = notes
            /\ notes'[Len(notes')].title # <<>>
            /\ notes'[Len(notes')].title = strip(last'.in.title)]_vars

C4_Witness ==
    /\ last.op = "add"
    /\ last.saved = "fail"
    /\ Len(notes) = 2
    /\ notes[1] # notes[2]

(* C5: delete at a position k in 1..len, confirmed, removes the note at k: *)
(* the list is one shorter, the notes before k stay where they were and    *)
(* each note after k moves down by one.                                    *)
C5_DeleteRemovesK ==
    [][(/\ last'.op = "delete"
        /\ InRange(last'.in.choice, notes)
        /\ Affirmative(last'.in.answer))
         => LET k == int(last'.in.choice).val
            IN  /\ Len(notes') = Len(notes) - 1
                /\ \A j \in 1..(k - 1) : notes'[j] = notes[j]
                /\ \A j \in (k + 1)..Len(notes) : notes'[j - 1] = notes[j]
                /\ last'.saved # "none"]_vars

C5_Witness ==
    /\ last.op = "delete"
    /\ last.in.choice = <<"1">>
    /\ Affirmative(last.in.answer)
    /\ Len(notes) = 1

(* C6 as written: edit at a position k in 1..len replaces the title, the   *)
(* content or the tags of the note at k only if the new value supplied for *)
(* that field is non-empty; the date, every other note, the length and the *)
(* order stay as they were.                                                *)
C6_ReplacedOnlyByNonEmptyValue ==
    [][(last'.op = "edit" /\ InRange(last'.in.choice, notes))
         => LET k == int(last'.in.choice).val
                in == last'.in
            IN  /\ Len(notes') = Len(notes)
                /\ \A j \in 1..Len(notes) : j # k => notes'[j] = notes[j]
                /\ DOMAIN notes'[k] = DOMAIN notes[k]
                /\ "date" \in DOMAIN notes[k] => notes'[k].date = notes[k].date
                /\ notes'[k].title # notes[k].title => strip(in.title) # <<>>
                /\ notes'[k].content # notes[k].content
                      => read_content(in.typed) # <<>>
                /\ notes'[k].tags # notes[k].tags
                      => parse_tags(strip(in.tags)) # <<>>]_vars

(* C6, amended: edit at a position k in 1..len replaces the title, the     *)
(* content or the tags of the note at k only if the text typed for that    *)
(* field is not blank (for the content: after the answer 'y'); a field     *)
(* whose text is blank, the date, every other note, the length and the     *)
(* order stay as they were.  Non-blank text for the tags that holds only   *)
(* commas and spaces replaces the tags by the empty list.                  *)
C6_ReplacedOnlyByNonBlankInput ==
    [][(last'.op = "edit" /\ InRange(last'.in.choice, notes))
         => LET k == int(last'.in.choice).val
                in == last'.in
            IN  /\ Len(notes') = Len(notes)
                /\ \A j \in 1..Len(notes) : j # k => notes'[j] = notes[j]
                /\ DOMAIN notes'[k] = DOMAIN notes[k]
                /\ "date" \in DOMAIN notes[k] => notes'[k].date = notes[k].date
                /\ notes'[k].title # notes[k].title => strip(in.title) # <<>>
                /\ notes'[k].content # notes[k].content
                      => Affirmative(in.answer) /\ read_content(in.typed) # <<>>
                /\ notes'[k].tags # notes[k].tags => strip(in.tags) # <<>>
                /\ (strip(in.tags) # <<>> /\ parse_tags(strip(in.tags)) = <<>>)
                      => notes'[k].tags = <<>>]_vars

C6_Witness ==
    /\ last.op = "edit"
    /\ last.in.choice = <<"1">>
    /\ last.in.title = Blank
    /\ Affirmative(last.in.answer)
    /\ last.in.tags = Blank
    /\ Len(notes) = 2
    /\ notes[1].content = <<"a", "B">>
    /\ notes[1].title = <<"A", "b">>
    /\ notes[1].tags # <<>>

(* C7: a declined operation changes neither the list nor the file and      *)
(* calls no save: edit or delete with a position that is 0, outside        *)
(* 1..len or not a number, delete with an answer that is not yes, search   *)
(* or filter with a blank keyword or tag.                                  *)
C7_DeclinedChangesNothing ==
    [][(\/ /\ last'.op \in {"edit", "delete"}
           /\ ~InRange(last'.in.choice, notes)
        \/ /\ last'.op = "delete"
           /\ ~Affirmative(last'.in.answer)
        \/ /\ last'.op \in {"search", "filter"}
           /\ strip(last'.in.keyword) = <<>>)
         => /\ notes' = notes
            /\ disk' = disk
            /\ last'.saved = "none"]_vars

C7_Witness ==
    /\ last.op = "edit"
    /\ last.in.choice = <<"3">>
    /\ Len(notes) = 2
    /\ disk # File(dump(notes))

(* C8: from a list whose notes all have a non-empty title, every menu      *)
(* operation leads to a list whose notes all have a non-empty title.       *)
C8_TitlesStayNonEmpty ==
    [][(pc = "menu" /\ AllTitled(notes)) => AllTitled(notes')]_vars

C8_Witness ==
    /\ last.op = "edit"
    /\ last.saved # "none"
    /\ strip(last.in.title) = <<>>
    /\ Len(notes) = 2
    /\ AllTitled(notes)

(* C9: search with a non-blank keyword shows exactly the notes whose title *)
(* or content holds the keyword at some offset, letter case ignored, in    *)
(* the order of the list (tags do not count); keywords that differ only in *)
(* letter case show the same notes; the list and the file are unchanged.   *)
SameLetter(c, d) == LowerChar(c) = LowerChar(d)

Mentions(text, word) ==
    \E off \in 0..(Len(text) - Len(word)) :
        \A j \in 1..Len(word) : SameLetter(text[off + j], word[j])

SameWord(s, t) ==
    Len(s) = Len(t) /\ \A j \in 1..Len(s) : SameLetter(s[j], t[j])

C10_FilterShowsTagged ==
    [][(/\ last'.op = "filter"
        /\ pc' = "menu"
        /\ strip(last'.in.keyword) # <<>>)
         => LET word == strip(last'.in.keyword)
                Tagged(n) == \E i \in 1..Len(n.tags) : SameWord(n.tags[i], word)
            IN  /\ results' = SelectSeq(notes, Tagged)
                /\ notes' = notes
                /\ disk' = disk]_vars

C10_Witness ==
    /\ last.op = "filter"
    /\ last.in.keyword = <<"A">>
    /\ Len(notes) = 2
    /\ Len(results) = 1
    /\ results[1] = notes[2]
    /\ \E i \in 1..Len(notes[1].tags) : Mentions(notes[1].tags[i], <<"a">>)

====
